---- MODULE Spec2Model ----
(***************************************************************************)
(* Parallel-tempering MCMC sampler of src/wasm/parallel_tempering_mcmc.cpp *)
(* as a state machine.                                                     *)
(*                                                                         *)
(* Numbers.  Every double of the program is a fixed-point integer:         *)
(*   - the four Params fields, the prior means and SDs and the titres are  *)
(*     in eighths (Unit), so floor and ceiling are in the domain when      *)
(*     0 < x < 8;                                                          *)
(*   - probabilities and the arguments of std::log are in 256ths (Prob);   *)
(*   - log densities are in hundredths (Cent);                             *)
(*   - temperatures and step sizes are in thousandths (Milli).             *)
(* The IEEE values NaN, +INFINITY and -INFINITY are the three sentinels    *)
(* NaN, PInf and NInf, and the F* operators give the IEEE results on them. *)
(*                                                                         *)
(* Random source.  std::mt19937 is a deterministic generator: rng_seed     *)
(* gives the state a seed produces, rng_next the next state, and each      *)
(* distribution maps the generator's output to its value.  The state the   *)
(* generator is constructed with comes from std::random_device and is the  *)
(* only nondeterminism of an execution besides the host's calls.           *)
(*                                                                         *)
(* Two executions.  pt is the execution of the program.  Under SpecTwin a  *)
(* second execution tw receives the same calls with the same arguments and *)
(* differs only in what std::random_device returned.                       *)
(***************************************************************************)
EXTENDS Integers, Sequences, FiniteSets, TLC

VARIABLES
    pt,            \* the execution: generator state and ParallelTemperingMCMC object
    tw,            \* the second execution (SpecTwin); stays as it starts when twin is FALSE
    twin,          \* whether tw runs
    pc,            \* "none" | "failed" | "idle" | "run": where the host is
    n_iterations,  \* argument of the run call in progress
    iter,          \* loop variable of run
    c,             \* number of chains already stepped in iteration iter
    cum,           \* history: sum of the n_iterations of all run calls so far
    base,          \* history: cum when the run call in progress started
    seeds,         \* history: number of set_random_seed calls
    seeded0,       \* history: set_random_seed was called before construct
    last,          \* history: what the last step or swap attempt of pt did
    rd             \* history: what std::random_device returned in pt and in tw

vars == <<pt, tw, twin, pc, n_iterations, iter, c, cum, base, seeds, seeded0, last, rd>>

(***************************************************************************)
(* Bounds of the model                                                     *)
(***************************************************************************)
MaxK == 2          \* construct is called with K in -1 .. MaxK
MaxIter == 3       \* the run calls of a behaviour total at most MaxIter iterations
MaxSeedCalls == 2  \* set_random_seed is called at most MaxSeedCalls times
NumRd == 2         \* number of distinct values std::random_device may return

(***************************************************************************)
(* Fixed-point scales and IEEE sentinels                                   *)
(***************************************************************************)
Unit == 8
Prob == 256
Cent == 100
Milli == 1000
NaN == 2000000000
PInf == 1000000000
NInf == -1000000000

IsFinite(x) == x # NaN /\ x # PInf /\ x # NInf

\* a / b rounded to nearest, b > 0
RoundDiv(a, b) == IF a >= 0 THEN (2 * a + b) \div (2 * b) ELSE -((2 * (-a) + b) \div (2 * b))

\* IEEE a + b
FAdd(a, b) ==
    IF a = NaN \/ b = NaN THEN NaN
    ELSE IF a = PInf THEN (IF b = NInf THEN NaN ELSE PInf)
    ELSE IF a = NInf THEN (IF b = PInf THEN NaN ELSE NInf)
    ELSE IF b = PInf \/ b = NInf THEN b
    ELSE a + b

\* IEEE -a
FNeg(a) == IF a = NaN THEN NaN ELSE IF a = PInf THEN NInf ELSE IF a = NInf THEN PInf ELSE -a

\* IEEE a - b
FSub(a, b) == FAdd(a, FNeg(b))

\* IEEE a < b: false when either side is NaN
FLess(a, b) ==
    IF a = NaN \/ b = NaN THEN FALSE
    ELSE IF a = PInf \/ b = NInf THEN FALSE
    ELSE IF a = NInf \/ b = PInf THEN TRUE
    ELSE a < b

\* IEEE a * m, a in hundredths (or a sentinel), m a finite number in thousandths
FMulMilli(a, m) ==
    IF a = NaN THEN NaN
    ELSE IF a = PInf \/ a = NInf
         THEN (IF m = 0 THEN NaN ELSE IF m > 0 THEN a ELSE FNeg(a))
    ELSE RoundDiv(a * m, Milli)

\* IEEE a / t, a finite in hundredths, t a temperature in thousandths or NaN
FDivMilli(a, t) == IF t = NaN THEN NaN ELSE RoundDiv(a * Milli, t)

(***************************************************************************)
(* std::log on arguments in 256ths, result in hundredths                   *)
(***************************************************************************)
LogTab ==
   << -555, -485, -445, -416, -394, -375, -360, -347, -335, -324, -315, -306, -298, -291, -284, -277,
      -271, -265, -260, -255, -250, -245, -241, -237, -233, -229, -225, -221, -218, -214, -211, -208,
      -205, -202, -199, -196, -193, -191, -188, -186, -183, -181, -178, -176, -174, -172, -170, -167,
      -165, -163, -161, -159, -157, -156, -154, -152, -150, -148, -147, -145, -143, -142, -140, -139,
      -137, -136, -134, -133, -131, -130, -128, -127, -125, -124, -123, -121, -120, -119, -118, -116,
      -115, -114, -113, -111, -110, -109, -108, -107, -106, -105, -103, -102, -101, -100, -99, -98,
      -97, -96, -95, -94, -93, -92, -91, -90, -89, -88, -87, -86, -85, -84, -84, -83,
      -82, -81, -80, -79, -78, -77, -77, -76, -75, -74, -73, -72, -72, -71, -70, -69,
      -69, -68, -67, -66, -65, -65, -64, -63, -63, -62, -61, -60, -60, -59, -58, -58,
      -57, -56, -55, -55, -54, -53, -53, -52, -51, -51, -50, -50, -49, -48, -48, -47,
      -46, -46, -45, -45, -44, -43, -43, -42, -42, -41, -40, -40, -39, -39, -38, -37,
      -37, -36, -36, -35, -35, -34, -34, -33, -32, -32, -31, -31, -30, -30, -29, -29,
      -28, -28, -27, -27, -26, -26, -25, -25, -24, -24, -23, -23, -22, -22, -21, -21,
      -20, -20, -19, -19, -18, -18, -17, -17, -17, -16, -16, -15, -15, -14, -14, -13,
      -13, -12, -12, -12, -11, -11, -10, -10, -9, -9, -9, -8, -8, -7, -7, -6,
      -6, -6, -5, -5, -4, -4, -4, -3, -3, -2, -2, -2, -1, -1, 0, 0 >>

std_log(n) == IF n = NaN \/ n < 0 THEN NaN ELSE IF n = 0 THEN NInf ELSE LogTab[n]

(***************************************************************************)
(* Math kernel                                                             *)
(***************************************************************************)
\* sigmoid(x), x in 64ths (a product of two eighths) or NaN, result in quarters.
\* 1/(1+exp(-x)) is exactly 1.0 in double arithmetic from x = 36.75 up and
\* exactly 0.0 below x = -709.78; in between it is rounded to the nearest of
\* 1/4, 1/2, 3/4.
sigmoid(x) ==
    IF x = NaN THEN NaN
    ELSE IF x >= 2352 THEN 4
    ELSE IF x <= -45427 THEN 0
    ELSE IF x >= 33 THEN 3
    ELSE IF x <= -33 THEN 1
    ELSE 2

log_beta_pdf(x, alpha, beta) ==
    IF x <= 0 \/ x >= Unit THEN NInf
    ELSE (alpha - 1) * std_log(32 * x) + (beta - 1) * std_log(Prob - 32 * x)

\* 0.5 * log(2*pi) in hundredths
HalfLog2Pi == 92

\* sd = 0 makes z infinite or NaN and log(sd) = -inf, so the sum is NaN;
\* sd < 0 makes log(sd) NaN.
log_normal_pdf(x, mean, sd) ==
    IF sd <= 0 THEN NaN
    ELSE -RoundDiv((Cent \div 2) * (x - mean) * (x - mean), sd * sd) - std_log(32 * sd) - HalfLog2Pi

\* log(1 - 0.5*erfc(-r/sqrt 2)) in hundredths for r = mean/sd = 0 .. 8
LogNormalizationTab == << -69, -184, -378, -661, -1036, -1506, -2074, -2738, -3495 >>

\* std::log(1.0 - 0.5 * std::erfc(-mean / (sd * std::sqrt(2.0)))), sd > 0, mean >= 0.
\* From mean/sd = 8.3 up, 0.5*erfc(..) rounds to 1.0 and the logarithm is log(0).
log_normalization(mean, sd) ==
    IF 10 * mean >= 83 * sd THEN NInf
    ELSE LogNormalizationTab[RoundDiv(mean, sd) + 1]

log_truncated_normal_pdf(x, mean, sd) ==
    IF x <= 0 THEN NInf
    ELSE IF sd <= 0 THEN NaN
    ELSE FSub(-RoundDiv((Cent \div 2) * (x - mean) * (x - mean), sd * sd) - std_log(32 * sd) - HalfLog2Pi,
              log_normalization(mean, sd))

\* p in 256ths or NaN; every comparison with NaN is false, so NaN reaches std::log
log_bernoulli_pmf(y, p) ==
    IF p = NaN THEN NaN
    ELSE IF p <= 0 \/ p >= Prob THEN NInf
    ELSE IF y = 1 THEN std_log(p) ELSE std_log(Prob - p)

(***************************************************************************)
(* Params, Priors, Data                                                    *)
(***************************************************************************)
Params(f, cl, e, s) == [floor |-> f, ceiling |-> cl, ec50 |-> e, slope |-> s]

\* Priors(): Beta(1,1), Beta(1,1), Normal(0,1), truncated Normal(1,1)
DefaultPriors ==
    [floor_alpha |-> 1, floor_beta |-> 1, ceiling_alpha |-> 1, ceiling_beta |-> 1,
     ec50_mean |-> 0, ec50_sd |-> 8, slope_mean |-> 8, slope_sd |-> 8]

\* informative Beta shapes
ShapedPriors == [DefaultPriors EXCEPT !.floor_alpha = 2, !.ceiling_beta = 2]

\* a sharp slope prior: mean 3, sd 0.25
SharpPriors == [DefaultPriors EXCEPT !.slope_mean = 24, !.slope_sd = 2]

\* an SD of 0 and a Beta shape of 0
ZeroSdPriors == [DefaultPriors EXCEPT !.ec50_sd = 0]
ZeroShapePriors == [DefaultPriors EXCEPT !.floor_alpha = 0]

\* Data(t, i): N = t.size()
Data(t, i) == [titre |-> t, infected |-> i, N |-> Len(t)]

\* Data() (N = 0); two observations (titre -2 infected, titre 2 not); one
\* observation whose titre is NaN
EmptyData == Data(<< >>, << >>)
TwoPoint == Data(<< -16, 16 >>, << 1, 0 >>)
NaNTitre == Data(<< NaN >>, << 1 >>)

\* The datasets and prior hyperparameters the host constructs the sampler with
Inputs ==
    { [data |-> TwoPoint,  priors |-> DefaultPriors],
      [data |-> TwoPoint,  priors |-> ShapedPriors],
      [data |-> TwoPoint,  priors |-> SharpPriors],
      [data |-> NaNTitre,  priors |-> DefaultPriors],
      [data |-> EmptyData, priors |-> DefaultPriors],
      [data |-> TwoPoint,  priors |-> ZeroSdPriors],
      [data |-> TwoPoint,  priors |-> ZeroShapePriors] }

prob_infection(p, titre) ==
    IF titre = NaN THEN NaN
    ELSE p.ceiling * (sigmoid(-p.slope * (titre - p.ec50)) * (Unit - p.floor) + 4 * p.floor)

log_prior(p, priors) ==
    FAdd(FAdd(FAdd(FAdd(0,
        log_beta_pdf(p.floor, priors.floor_alpha, priors.floor_beta)),
        log_beta_pdf(p.ceiling, priors.ceiling_alpha, priors.ceiling_beta)),
        log_normal_pdf(p.ec50, priors.ec50_mean, priors.ec50_sd)),
        log_truncated_normal_pdf(p.slope, priors.slope_mean, priors.slope_sd))

\* the loop of log_likelihood from observation i on, ll the sum so far
RECURSIVE log_likelihood_from(_, _, _, _)
log_likelihood_from(p, data, i, ll) ==
    IF i > data.N THEN ll
    ELSE LET s == FAdd(ll, log_bernoulli_pmf(data.infected[i], prob_infection(p, data.titre[i])))
         IN  IF ~IsFinite(s) THEN NInf ELSE log_likelihood_from(p, data, i + 1, s)

log_likelihood(p, data) == log_likelihood_from(p, data, 1, 0)

log_posterior_tempered(p, data, priors, temperature) ==
    LET lp == log_prior(p, priors) IN
    IF ~IsFinite(lp) THEN NInf
    ELSE LET ll == log_likelihood(p, data) IN
         IF ~IsFinite(ll) THEN NInf
         ELSE FAdd(lp, FDivMilli(ll, temperature))

(***************************************************************************)
(* Random source: std::mt19937 rng and the distributions drawing from it   *)
(***************************************************************************)
RngMod == 1024

\* the generator state that seeding with `seed` produces
rng_seed(seed) == (seed * 397 + 131) % RngMod

\* the generator state after one more output; the output is the new state
rng_next(g) == (g * 421 + 337) % RngMod

RECURSIVE rng_skip(_, _)
rng_skip(g, n) == IF n = 0 THEN g ELSE rng_skip(rng_next(g), n - 1)

\* a reseeding that mixes the seed into the state the generator already has
set_random_seed_mixing(g, seed) == (g + rng_seed(seed)) % RngMod

\* set_random_seed(seed): rng.seed(seed)
set_random_seed(g, seed) == rng_seed(seed)

\* the values std::random_device{}() may return when rng is constructed
RdValues == { 3 * r + 1 : r \in 0 .. NumRd - 1 }

\* the seeds the host passes to set_random_seed
SeedValues == {42, 7}

\* uniform_real_distribution<double>(0.0, 1.0): a value of [0, 1) in 256ths
uniform(out) == out \div 4

\* initial values drawn from the closed range: the lowest one is the bound itself
uniform_init_closed(out, lo, cells) == (lo - 1) + 2 * ((out * cells) \div RngMod)

\* uniform_real_distribution<double>(a, b) of the constructor: [a, b) is cut in
\* `cells` cells of width 1/4 and the draw is the centre of its cell, lo being
\* the centre of the first cell (in eighths)
uniform_init(out, lo, cells) == lo + 2 * ((out * cells) \div RngMod)

\* uniform_int_distribution<int>(0, hi)
pair_dist(out, hi) == (out * (hi + 1)) \div RngMod

\* normal_distribution<double>(0.0, 1.0), in units of 1.25: with the initial
\* step size 0.1 one unit moves a parameter by one eighth.  Even values keep a
\* parameter on the cell centres; the odd ones are those that can put a
\* candidate exactly on 0, 1 or 2.
NormalTab == << 0, 2, -2, 4, -4, 2, -2, 0, 6, -6, 8, -8, 1, -3, 12, -12 >>

normal_dist(out) == NormalTab[(out \div 64) + 1]

(***************************************************************************)
(* ProposalDistribution                                                    *)
(***************************************************************************)
\* step_sizes(4, 0.1), in thousandths
InitialStepSizes == << 100, 100, 100, 100 >>

\* std::max(0.001, std::min(s, 1.0))
clamp_step(s) == IF s > Milli THEN Milli ELSE IF s < 1 THEN 1 ELSE s

adapt(step_sizes, iteration, accepted, total) ==
    LET scale == IF Milli * accepted > 234 * total THEN 101 ELSE 99 IN
    IF iteration % 50 = 0
    THEN [j \in 1 .. 4 |-> clamp_step(RoundDiv(step_sizes[j] * scale, 100))]
    ELSE step_sizes

\* step_sizes[j] * normal_dist(rng), in eighths
perturb(step, z) == RoundDiv(step * z, 100)

\* one pass of the body of the floor / ceiling reflection loop
reflect01_body(x) ==
    LET y == IF x <= 0 THEN -x ELSE x IN
    IF y >= Unit THEN 2 * Unit - y ELSE y

\* while (x <= 0.0 || x >= 1.0) { ... }: the value the loop exits with.  The
\* body reads and writes x alone, so a pass that leaves x unchanged outside
\* (0, 1) repeats for ever; the operator then returns that x, which is not in
\* (0, 1).
RECURSIVE reflect01(_)
reflect01(x) ==
    IF x > 0 /\ x < Unit THEN x
    ELSE IF reflect01_body(x) = x THEN x
    ELSE reflect01(reflect01_body(x))

\* while (slope_prop <= 0.0) slope_prop = -slope_prop, in the same way
RECURSIVE reflect0(_)
reflect0(x) ==
    IF x > 0 THEN x
    ELSE IF -x = x THEN x
    ELSE reflect0(-x)

\* propose(current) with the generator in state g: the candidate, the number
\* of generator outputs consumed, and whether a reflection loop never exits
\* (the later draws are then never made).
propose(current, step_sizes, g) ==
    LET floor_prop   == reflect01(current.floor + perturb(step_sizes[1], normal_dist(rng_skip(g, 1))))
        ceiling_prop == reflect01(current.ceiling + perturb(step_sizes[2], normal_dist(rng_skip(g, 2))))
        ec50_prop    == current.ec50 + perturb(step_sizes[3], normal_dist(rng_skip(g, 3)))
        slope_prop   == reflect0(current.slope + perturb(step_sizes[4], normal_dist(rng_skip(g, 4))))
        floor_ok     == floor_prop > 0 /\ floor_prop < Unit
        ceiling_ok   == ceiling_prop > 0 /\ ceiling_prop < Unit
        slope_ok     == slope_prop > 0
    IN  [proposed |-> Params(floor_prop, ceiling_prop, ec50_prop, slope_prop),
         reflected |-> \/ floor_prop # current.floor + perturb(step_sizes[1], normal_dist(rng_skip(g, 1)))
                       \/ ceiling_prop # current.ceiling + perturb(step_sizes[2], normal_dist(rng_skip(g, 2)))
                       \/ slope_prop # current.slope + perturb(step_sizes[4], normal_dist(rng_skip(g, 4))),
         draws    |-> IF ~floor_ok THEN 1 ELSE IF ~ceiling_ok THEN 2 ELSE 4,
         hangs    |-> ~(floor_ok /\ ceiling_ok /\ slope_ok)]

(***************************************************************************)
(* MCMCChain                                                               *)
(***************************************************************************)
MCMCChain(temp, init, data, priors) ==
    [current               |-> init,
     current_log_posterior |-> log_posterior_tempered(init, data, priors, temp),
     temperature           |-> temp,
     step_sizes            |-> InitialStepSizes,
     accepted              |-> 0,
     total                 |-> 0,
     samples               |-> << >>]

\* the acceptance test written as !(log_alpha <= std::log(uniform(rng)))
mh_accept_negated(u, log_alpha) ==
    ~(FLess(log_alpha, std_log(u)) \/ (log_alpha # NaN /\ log_alpha = std_log(u)))

\* std::log(uniform(rng)) < log_alpha
mh_accept(u, log_alpha) == FLess(std_log(u), log_alpha)

\* step(data, priors) on chain ch with the generator in state g
step(ch, data, priors, g) ==
    LET pr        == propose(ch.current, ch.step_sizes, g)
        proposed_log_posterior ==
                     log_posterior_tempered(pr.proposed, data, priors, ch.temperature)
        log_alpha == FSub(proposed_log_posterior, ch.current_log_posterior)
        total     == ch.total + 1
        accept    == mh_accept(uniform(rng_skip(g, 5)), log_alpha)
        current   == IF accept THEN pr.proposed ELSE ch.current
        accepted  == IF accept THEN ch.accepted + 1 ELSE ch.accepted
    IN  IF pr.hangs
        THEN [chain |-> ch, rng |-> rng_skip(g, pr.draws), hangs |-> TRUE,
              proposed |-> pr.proposed, reflected |-> pr.reflected,
              proposed_log_posterior |-> NaN, accept |-> FALSE]
        ELSE [chain |-> [ch EXCEPT
                  !.current = current,
                  !.current_log_posterior =
                      IF accept THEN proposed_log_posterior ELSE ch.current_log_posterior,
                  !.accepted = accepted,
                  !.total = total,
                  !.samples = Append(ch.samples, current),
                  !.step_sizes = IF total % 50 = 0
                                 THEN adapt(ch.step_sizes, total, accepted, total)
                                 ELSE ch.step_sizes],
              rng |-> rng_skip(g, 5), hangs |-> FALSE,
              proposed |-> pr.proposed, reflected |-> pr.reflected,
              proposed_log_posterior |-> proposed_log_posterior, accept |-> accept]

\* set_current that keeps the log-posterior cached for the previous theta
set_current_stale(ch, p, data, priors) == [ch EXCEPT !.current = p]

set_current(ch, p, data, priors) ==
    [ch EXCEPT !.current = p,
               !.current_log_posterior = log_posterior_tempered(p, data, priors, ch.temperature)]

\* total > 0 ? accepted / total : 0.0, in thousandths
get_acceptance_rate(ch) == IF ch.total > 0 THEN RoundDiv(Milli * ch.accepted, ch.total) ELSE 0

(***************************************************************************)
(* ParallelTemperingMCMC                                                   *)
(***************************************************************************)
max_temp == 10

\* std::pow(10.0, i / n) in thousandths, row n, column i + 1
PowTab ==
    << << 1000, 10000 >>,
       << 1000, 3162, 10000 >>,
       << 1000, 2154, 4642, 10000 >>,
       << 1000, 1778, 3162, 5623, 10000 >> >>

\* std::pow(max_temp, static_cast<double>(i) / (num_chains - 1)): with one
\* chain the exponent is 0.0 / 0 = NaN and pow(10, NaN) is NaN
temperature_of(i, num_chains) ==
    IF num_chains - 1 = 0 THEN NaN ELSE PowTab[num_chains - 1][i + 1]

\* Params init(init_floor(rng), init_ceiling(rng), init_ec50(rng), init_slope(rng))
\* for chain i (from 0), the generator being in state g when the constructor
\* starts; the draws are made left to right, as the wasm toolchain orders them.
\* init_floor(0.01, 0.5), init_ceiling(0.1, 0.9), init_ec50(-2, 2), init_slope(0.1, 3)
init_params(g, i) ==
    Params(uniform_init(rng_skip(g, 4 * i + 1), 1, 2),
           uniform_init(rng_skip(g, 4 * i + 2), 1, 4),
           uniform_init(rng_skip(g, 4 * i + 3), -15, 16),
           uniform_init(rng_skip(g, 4 * i + 4), 1, 12))

\* an execution before the constructor has run: only the generator exists
NoEnsemble(g) ==
    [rng |-> g, built |-> FALSE, num_chains |-> 0, data |-> EmptyData,
     priors |-> DefaultPriors, temperatures |-> << >>, chains |-> << >>,
     swap_accepted |-> 0, swap_total |-> 0, hung |-> FALSE]

\* ParallelTemperingMCMC(n_chains, d, p).  temperatures.resize(num_chains)
\* throws for a negative num_chains and no object comes to exist.
construct(e, n_chains, d, p) ==
    IF n_chains < 0 THEN e
    ELSE [e EXCEPT
        !.built = TRUE,
        !.num_chains = n_chains,
        !.data = d,
        !.priors = p,
        !.temperatures = [i \in 1 .. n_chains |-> temperature_of(i - 1, n_chains)],
        !.chains = [i \in 1 .. n_chains |->
                       MCMCChain(temperature_of(i - 1, n_chains), init_params(e.rng, i - 1), d, p)],
        !.rng = rng_skip(e.rng, 4 * n_chains)]

\* the inner loop iterating over copies of the chains (for (auto chain : chains)):
\* the generator advances and the chain of the ensemble stays as it was
step_chain_by_value(e, k) ==
    LET r == step(e.chains[k], e.data, e.priors, e.rng) IN
    [e EXCEPT !.rng = r.rng, !.hung = r.hangs]

\* chain.step(data, priors) for chain k (from 1) of run's inner loop
step_chain(e, k) ==
    LET r == step(e.chains[k], e.data, e.priors, e.rng) IN
    [e EXCEPT !.chains[k] = r.chain, !.rng = r.rng, !.hung = r.hangs]

\* 1.0 / temperatures[k] in thousandths
inv_temperature(t) == RoundDiv(Milli * Milli, t)

\* the pair index i (from 0) a swap attempt of e picks
swap_index(e) == pair_dist(rng_skip(e.rng, 1), e.num_chains - 2)

swap_log_alpha(e, i) ==
    FMulMilli(FSub(e.chains[i + 1].current_log_posterior, e.chains[i + 2].current_log_posterior),
              inv_temperature(e.temperatures[i + 2]) - inv_temperature(e.temperatures[i + 1]))

swap_accept(e) == mh_accept(uniform(rng_skip(e.rng, 2)), swap_log_alpha(e, swap_index(e)))

\* the exchange without the temporary: chain j is given chain i's new state
swap_states_no_temp(chains, i, j, data, priors) ==
    LET ci == set_current(chains[i], chains[j].current, data, priors)
        cj == set_current(chains[j], ci.current, data, priors)
    IN  [chains EXCEPT ![i] = ci, ![j] = cj]

\* the exchange of the states of chains i and j = i + 1 (from 1 here)
swap_states(chains, i, j, data, priors) ==
    LET temp_params == chains[i].current
        ci == set_current(chains[i], chains[j].current, data, priors)
        cj == set_current(chains[j], temp_params, data, priors)
    IN  [chains EXCEPT ![i] = ci, ![j] = cj]

\* the swap attempt of run: lines 286-304
swap_attempt(e) ==
    LET i == swap_index(e) + 1 IN
    [e EXCEPT
        !.rng = rng_skip(e.rng, 2),
        !.swap_total = e.swap_total + 1,
        !.swap_accepted = IF swap_accept(e) THEN e.swap_accepted + 1 ELSE e.swap_accepted,
        !.chains = IF swap_accept(e)
                   THEN swap_states(e.chains, i, i + 1, e.data, e.priors)
                   ELSE e.chains]

get_samples(e) == e.chains[1].samples

\* swap_total > 0 ? swap_accepted / swap_total : 0.0, in thousandths
get_swap_rate(e) == IF e.swap_total > 0 THEN RoundDiv(Milli * e.swap_accepted, e.swap_total) ELSE 0

get_acceptance_rates(e) == [k \in 1 .. e.num_chains |-> get_acceptance_rate(e.chains[k])]

(***************************************************************************)
(* The host's calls and the steps of run                                   *)
(***************************************************************************)
NoEvent ==
    [op |-> "none", k |-> 0, cached |-> 0, proposed_log_posterior |-> 0,
     reflected |-> FALSE, accept |-> FALSE]

\* std::mt19937 rng(std::random_device{}()): r1 and r2 are what the random
\* device returned in the two executions
Start(r1, r2, t) ==
    /\ pt = NoEnsemble(rng_seed(r1))
    /\ tw = NoEnsemble(rng_seed(r2))
    /\ twin = t
    /\ pc = "none"
    /\ n_iterations = 0
    /\ iter = 0
    /\ c = 0
    /\ cum = 0
    /\ base = 0
    /\ seeds = 0
    /\ seeded0 = FALSE
    /\ last = NoEvent
    /\ rd = <<r1, r2>>

Init == \E r \in RdValues : Start(r, r, FALSE)

InitTwin == \E r1, r2 \in RdValues : Start(r1, r2, TRUE)

\* set_random_seed(seed), called by the host before construct or between calls
SetRandomSeed(seed) ==
    /\ pc \in {"none", "idle"}
    /\ seeds < MaxSeedCalls
    /\ pt' = [pt EXCEPT !.rng = set_random_seed(pt.rng, seed)]
    /\ tw' = IF twin THEN [tw EXCEPT !.rng = set_random_seed(tw.rng, seed)] ELSE tw
    /\ seeds' = seeds + 1
    /\ seeded0' = (seeded0 \/ pc = "none")
    /\ UNCHANGED <<twin, rd, pc, n_iterations, iter, c, cum, base, last>>

\* new ParallelTemperingMCMC(K, d, p)
Construct(K, d, p) ==
    /\ pc = "none"
    /\ pt' = construct(pt, K, d, p)
    /\ tw' = IF twin THEN construct(tw, K, d, p) ELSE tw
    /\ pc' = IF K < 0 THEN "failed" ELSE "idle"
    /\ last' = [NoEvent EXCEPT !.op = "construct"]
    /\ UNCHANGED <<twin, rd, n_iterations, iter, c, cum, base, seeds, seeded0>>

\* run(n) is entered: for (int iter = 0; iter < n_iterations; ...)
Run(n) ==
    /\ pc = "idle"
    /\ cum + n <= MaxIter
    /\ base' = cum
    /\ cum' = cum + n
    /\ n_iterations' = n
    /\ iter' = 0
    /\ c' = 0
    /\ pc' = IF 0 < n THEN "run" ELSE "idle"
    /\ UNCHANGED <<pt, tw, twin, rd, seeds, seeded0, last>>

\* for (auto& chain : chains) chain.step(data, priors): the next chain steps.
\* A step whose proposal never leaves a reflection loop does not return.
Step ==
    /\ pc = "run"
    /\ ~pt.hung
    /\ c < pt.num_chains
    /\ LET r == step(pt.chains[c + 1], pt.data, pt.priors, pt.rng) IN
       /\ pt' = step_chain(pt, c + 1)
       /\ c' = IF r.hangs THEN c ELSE c + 1
       /\ last' = [op |-> IF r.hangs THEN "hang" ELSE "step", k |-> c + 1,
                   cached |-> pt.chains[c + 1].current_log_posterior,
                   proposed_log_posterior |-> r.proposed_log_posterior,
                   reflected |-> r.reflected,
                   accept |-> r.accept]
    /\ tw' = IF twin /\ ~tw.hung THEN step_chain(tw, c + 1) ELSE tw
    /\ UNCHANGED <<twin, rd, pc, n_iterations, iter, cum, base, seeds, seeded0>>

\* ++iter and the loop test of run
NextIteration ==
    /\ iter' = iter + 1
    /\ c' = 0
    /\ pc' = IF iter + 1 < n_iterations THEN "run" ELSE "idle"

\* if (iter % 10 == 0 && num_chains > 1) { ... } after all chains have stepped
Swap ==
    /\ pc = "run"
    /\ ~pt.hung
    /\ c = pt.num_chains
    /\ iter % 10 = 0 /\ pt.num_chains > 1
    /\ pt' = swap_attempt(pt)
    /\ tw' = IF twin /\ ~tw.hung THEN swap_attempt(tw) ELSE tw
    /\ last' = [op |-> "swap", k |-> swap_index(pt) + 1,
                cached |-> swap_log_alpha(pt, swap_index(pt)),
                proposed_log_posterior |-> 0,
                reflected |-> FALSE,
                accept |-> swap_accept(pt)]
    /\ NextIteration
    /\ UNCHANGED <<twin, rd, n_iterations, cum, base, seeds, seeded0>>

\* the iterations in which no swap is attempted
NoSwap ==
    /\ pc = "run"
    /\ ~pt.hung
    /\ c = pt.num_chains
    /\ ~(iter % 10 = 0 /\ pt.num_chains > 1)
    /\ NextIteration
    /\ UNCHANGED <<pt, tw, twin, rd, n_iterations, cum, base, seeds, seeded0, last>>

Next ==
    \/ \E seed \in SeedValues : SetRandomSeed(seed)
    \/ \E K \in -1 .. MaxK, i \in Inputs : Construct(K, i.data, i.priors)
    \/ \E n \in 0 .. MaxIter : Run(n)
    \/ Step
    \/ Swap
    \/ NoSwap

Spec == Init /\ [][Next]_vars

SpecTwin == InitTwin /\ [][Next]_vars

(***************************************************************************)
(* Properties                                                              *)
(***************************************************************************)
Chains(e) == 1 .. e.num_chains

\* floor and ceiling strictly in (0,1), slope > 0, ec50 finite
InDomain(p) ==
    /\ 0 < p.floor /\ p.floor < Unit
    /\ 0 < p.ceiling /\ p.ceiling < Unit
    /\ 0 < p.slope
    /\ IsFinite(p.ec50)

\* K, D and the priors are what the facade is documented to accept
ValidInputs(K, d, p) ==
    /\ K >= 1
    /\ d.N >= 1
    /\ p.ec50_sd > 0 /\ p.slope_sd > 0
    /\ p.floor_alpha > 0 /\ p.floor_beta > 0
    /\ p.ceiling_alpha > 0 /\ p.ceiling_beta > 0

\* C1: construct fails whenever K < 1, N < 1, a prior SD is <= 0 or a Beta
\* shape is <= 0, so every ensemble that exists (and that run, get_samples or a
\* diagnostic can be called on) was built from valid inputs.
C1_ConstructRejectsInvalid ==
    pt.built => ValidInputs(pt.num_chains, pt.data, pt.priors)

\* what the two executions have produced: chain states and traces, swap counters
Results(e) == <<e.chains, e.swap_accepted, e.swap_total, e.hung>>

\* C2: two executions given the same seed at the same point of the same call
\* sequence have identical traces and chain states, wherever that point is
\* and whatever the generator held before.
C2_Determinism ==
    (twin /\ seeds > 0) => Results(pt) = Results(tw)

\* C2 as amended: the executions agree when the seed is set before construct
\* (later reseeds at the same points keep them in agreement).
C2_DeterminismSeededFirst ==
    (twin /\ seeded0) => (Results(pt) = Results(tw) /\ pt.rng = tw.rng)

\* two executions whose random devices differed, seeded before construct,
\* after a run of MaxIter iterations with swaps
C2_Witness ==
    /\ twin /\ seeded0 /\ rd[1] # rd[2]
    /\ pc = "idle" /\ cum = MaxIter
    /\ pt.num_chains > 1 /\ pt.swap_total > 0
    /\ \E k \in Chains(pt) : pt.chains[k].accepted > 0

\* C3: every current theta and every theta of every trace is in the domain.
C3_Domain ==
    \A k \in Chains(pt) :
        /\ InDomain(pt.chains[k].current)
        /\ \A s \in 1 .. Len(pt.chains[k].samples) : InDomain(pt.chains[k].samples[s])

\* a candidate that had left the domain was reflected and accepted, after an
\* accepted swap
C3_Witness ==
    /\ last.op = "step" /\ last.reflected /\ last.accept
    /\ pt.swap_accepted > 0

C5_Ladder ==
    (pt.built /\ ValidInputs(pt.num_chains, pt.data, pt.priors)) =>
        /\ pt.temperatures[1] = Milli
        /\ pt.num_chains > 1 => pt.temperatures[pt.num_chains] = max_temp * Milli
        /\ \A k \in Chains(pt) : IsFinite(pt.temperatures[k]) /\ pt.temperatures[k] >= Milli
        /\ \A k \in 1 .. pt.num_chains - 1 : pt.temperatures[k] < pt.temperatures[k + 1]

\* the number of steps chain k has made: during a run call, the iterations
\* completed plus one if the chain has stepped in the current iteration
StepsDone(k) == IF pc = "run" THEN base + iter + (IF k <= c THEN 1 ELSE 0) ELSE cum

C6_Counts ==
    /\ \A k \in Chains(pt) :
          /\ pt.chains[k].accepted <= pt.chains[k].total
          /\ pt.chains[k].total = Len(pt.chains[k].samples)
          /\ pt.chains[k].total = StepsDone(k)
    /\ (pc = "idle" /\ pt.num_chains >= 1) => Len(get_samples(pt)) = cum

\* a step: chain c + 1 alone changes, its total goes up by one and its new
\* current theta is appended to its trace
C6_StepAction ==
    (pc = "run" /\ c' = c + 1) =>
        /\ pt'.chains[c + 1].total = pt.chains[c + 1].total + 1
        /\ pt'.chains[c + 1].samples =
               Append(pt.chains[c + 1].samples, pt'.chains[c + 1].current)
        /\ \A j \in Chains(pt) \ {c + 1} : pt'.chains[j] = pt.chains[j]
        /\ pt'.swap_total = pt.swap_total

\* a swap attempt comes after every chain has stepped in the iteration
C6_SwapAction ==
    (pt'.swap_total # pt.swap_total) =>
        /\ c = pt.num_chains
        /\ \A k \in Chains(pt) : pt.chains[k].total = base + iter + 1

\* C6: each iteration steps every chain once, in ladder order, before the swap
\* attempt; each step adds one to total and one entry to the trace; accepted
\* <= total and total = trace length = cumulative n_iterations.
C6_StepsAndTraces ==
    /\ []C6_Counts
    /\ [][C6_StepAction /\ C6_SwapAction]_vars

\* several run calls have returned, with accepted and rejected steps
C6_Witness ==
    /\ pc = "idle" /\ cum = MaxIter /\ seeds > 0
    /\ pt.num_chains = MaxK
    /\ pt.swap_total > 1
    /\ \E k \in Chains(pt) :
           0 < pt.chains[k].accepted /\ pt.chains[k].accepted < pt.chains[k].total

\* the candidate chain c + 1 draws in the next step and its log-posterior
NextStep == step(pt.chains[c + 1], pt.data, pt.priors, pt.rng)

\* cached log-posteriors the rejection is checked against
CachedValues == {NInf, NaN, 0, -250}

\* C7: a candidate whose tempered log-posterior is not finite is rejected,
\* whatever the uniform draw and the cached log-posterior: theta and the cache
\* stay, accepted stays, total goes up by one, the unchanged theta is appended
\* to the trace and the chain goes on.
C7_RejectNonFinite ==
    [][ (/\ pc = "run" /\ ~pt.hung /\ c < pt.num_chains
         /\ pt' # pt
         /\ ~NextStep.hangs
         /\ ~IsFinite(NextStep.proposed_log_posterior))
        =>
        LET ch  == pt.chains[c + 1]
            plp == NextStep.proposed_log_posterior
        IN  /\ pt'.chains[c + 1].current = ch.current
            /\ pt'.chains[c + 1].current_log_posterior = ch.current_log_posterior
            /\ pt'.chains[c + 1].accepted = ch.accepted
            /\ pt'.chains[c + 1].total = ch.total + 1
            /\ pt'.chains[c + 1].samples = Append(ch.samples, ch.current)
            /\ ~pt'.hung
            /\ \A v \in CachedValues \cup {ch.current_log_posterior} :
                   \A u \in 0 .. Prob - 1 : ~mh_accept(u, FSub(plp, v)) ]_vars

\* a candidate of log-posterior -infinity met a cached -infinity and was rejected
C7_Witness ==
    /\ last.op = "step"
    /\ last.proposed_log_posterior = NInf
    /\ last.cached = NInf
    /\ ~last.accept

\* the current thetas of all chains, as a bag
ThetaBag(e) ==
    [p \in {e.chains[k].current : k \in Chains(e)} |->
        Cardinality({k \in Chains(e) : e.chains[k].current = p})]

\* what a swap attempt of the pair (i, i + 1) does to the execution
SwapFrame(i) ==
    /\ pt'.swap_total = pt.swap_total + 1
    /\ pt'.swap_accepted \in {pt.swap_accepted, pt.swap_accepted + 1}
    /\ pt'.swap_accepted = pt.swap_accepted + 1 =>
          /\ pt'.chains[i].current = pt.chains[i + 1].current
          /\ pt'.chains[i + 1].current = pt.chains[i].current
          /\ ThetaBag(pt') = ThetaBag(pt)
    /\ pt'.swap_accepted = pt.swap_accepted => pt'.chains = pt.chains
    /\ \A k \in Chains(pt) \ {i, i + 1} : pt'.chains[k] = pt.chains[k]
    /\ \A k \in Chains(pt) :
          /\ pt'.chains[k].temperature = pt.chains[k].temperature
          /\ pt'.chains[k].step_sizes = pt.chains[k].step_sizes
          /\ pt'.chains[k].accepted = pt.chains[k].accepted
          /\ pt'.chains[k].total = pt.chains[k].total
          /\ pt'.chains[k].samples = pt.chains[k].samples
    /\ pt'.temperatures = pt.temperatures
    /\ pt'.num_chains = pt.num_chains

CeilDiv(a, b) == (a + b - 1) \div b

\* C9: however the iterations are split into run calls, after M iterations in
\* total swap_total is ceil(M / 10) for K > 1; for K = 1 no swap is attempted
\* and get_swap_rate is 0.
C9_Cadence ==
    (pt.built /\ pc = "idle" /\ ValidInputs(pt.num_chains, pt.data, pt.priors)) =>
        IF pt.num_chains > 1
        THEN pt.swap_total = CeilDiv(cum, 10)
        ELSE pt.swap_total = 0 /\ get_swap_rate(pt) = 0

\* C10: every proposal leaves its reflection loops, so every chain step
\* completes and run returns (stated for the ensembles built from valid inputs).
C10_ProposalTerminates ==
    (pt.built /\ ValidInputs(pt.num_chains, pt.data, pt.priors)) => ~pt.hung
====
